---------------------------- MODULE Spec2Model ----------------------------
(***************************************************************************)
(* A model of norris-bot (src/src/NorrisBot.js).  The file holds three     *)
(* revisions of the NorrisBot class:                                       *)
(*   - lines 6-253   : Giphy / BeepBoop revision (SpecGiphy),              *)
(*   - lines 260-574 : joke-of-the-day revision that tracks the channels   *)
(*                     and groups the bot belongs to (Spec),               *)
(*   - lines 581-799 : revision that broadcasts a joke of the day to every *)
(*                     tracked channel and group (SpecBroadcast).          *)
(* The hears() registrations of lines 392-455 are modelled by SpecRouter,  *)
(* the three constructors by SpecConstruct, and the daily broadcast next   *)
(* to the membership listeners by SpecTimerAndEvents.                      *)
(***************************************************************************)
EXTENDS Integers, Sequences, FiniteSets, TLC

VARIABLES
  jokes,                \* this.jokes
  jokeOfTheDay,         \* this.jokeOfTheDay
  jokeOfTheDayCronJob,  \* this.jokeOfTheDayCronJob: null or the started CronJob
  rtm,                  \* the RTM socket: "connecting", "open", "closed", "failed"
  rtmPromise,           \* the promise of spawnBotAndStartRTM
  botInstance,          \* this.botInstance
  botIdentity,          \* this.botIdentity
  botUser,              \* this.botUser
  botGroups,            \* this.botGroups
  botChannels,          \* this.botChannels
  event,                \* the event the controller dispatched last, with its data
  pre,                  \* botChannels / botGroups as they were before that event
  thrown,               \* the exception the last handler let escape, or "none"
  outbox,               \* the outbound messages the last handler issued
  fired,                \* the callbacks the last event invoked, in order
  listeners,            \* controller.events: the listeners of each event type
  giphy                 \* the Giphy lookups that are in flight

vars == <<giphy, listeners, jokes, jokeOfTheDay, jokeOfTheDayCronJob, rtm, rtmPromise, botInstance,
          botIdentity, botUser, botGroups, botChannels, event, pre, thrown,
          outbox, fired>>

---------------------------------------------------------------------------
(* Bounds of the model.                                                    *)

\* Longest joke collection handed to the constructor.
MaxJokes == 2
\* Math.random() is drawn from {0/RandomGrain, ..., (RandomGrain-1)/RandomGrain}.
RandomGrain == 4

---------------------------------------------------------------------------
(* Values.                                                                 *)

\* JavaScript null, for a field that holds an object.
null == [null |-> TRUE]
\* JavaScript undefined, where an object was looked for.
undefined == [undefined |-> TRUE]
\* JavaScript null, for a field that holds an array of objects.
nullList == <<null>>

BotId == "B1"
OtherUserId == "U9"
ChannelOrder == <<"C1", "C2">>
ChannelIds == {ChannelOrder[i] : i \in 1..Len(ChannelOrder)}
GroupOrder == <<"G1", "G2">>
GroupIds == {GroupOrder[i] : i \in 1..Len(GroupOrder)}
JokeTexts == <<"j1", "j2", "j3", "j4">>

\* The joke collections options.jokes ranges over (non-empty, see lines 278-280).
JokeCollections == {SubSeq(JokeTexts, 1, n) : n \in 1..MaxJokes}

\* Channel objects as rtm.start and channel_joined carry them.
Channels == [id : ChannelIds, is_archived : BOOLEAN, is_member : BOOLEAN]
\* Group objects as rtm.start and group_joined carry them.
Groups == [id : GroupIds, is_archived : BOOLEAN,
           members : {{BotId, OtherUserId}, {OtherUserId}}]

Ids(list) == {list[i].id : i \in 1..Len(list)}
ToSet(list) == {list[i] : i \in 1..Len(list)}
DistinctIds(list) == \A i, j \in 1..Len(list) : list[i].id = list[j].id => i = j

\* The lists rtm.start can carry: every id at most once (Slack lists a channel
\* once), here in the order of `order`.
RECURSIVE ListsOver(_, _)
ListsOver(S, order) ==
  IF order = <<>> THEN {<<>>}
  ELSE LET rest == ListsOver(S, Tail(order))
       IN  rest \cup {<<x>> \o l : x \in {y \in S : y.id = Head(order)}, l \in rest}

\* The user objects of the payload; Slack lists the bot's own user.
Users ==
  <<[id |-> OtherUserId, profile |-> [image_192 |-> "u9.png"]],
    [id |-> BotId, profile |-> [image_192 |-> "b1.png"]]>>

\* The payload of a successful rtm.start.
Payloads ==
  [users : {Users}, channels : ListsOver(Channels, ChannelOrder),
   groups : ListsOver(Groups, GroupOrder)]

\* What channel_joined / group_joined carry: the destination the bot has just
\* joined, hence not archived and with the bot among its members.
JoinedChannels == {c \in Channels : ~c.is_archived /\ c.is_member}
JoinedGroups == {g \in Groups : ~g.is_archived /\ BotId \in g.members}

NoEvent == [type |-> "none"]

\* new CronJob({cronTime: '0 0 15 * * *', start: true, ...}).
CronJob == [cronTime |-> "0 0 15 * * *", start |-> TRUE]

---------------------------------------------------------------------------
(* Pure functions of the class.                                            *)

\* Array.prototype.find over a list of objects with an id.
Find(list, id) ==
  IF \E i \in 1..Len(list) : list[i].id = id
  THEN list[CHOOSE i \in 1..Len(list) :
              list[i].id = id /\ \A j \in 1..(i - 1) : list[j].id # id]
  ELSE undefined

\* array[index] of JavaScript: indices start at 0, and an index outside of the
\* array yields undefined.
At(array, index) ==
  IF index \in 0..(Len(array) - 1) THEN array[index + 1] ELSE "undefined"

\* Math.floor(Math.random() * length) with Math.random() = r / RandomGrain.
randomIndex(r, length) == (r * length) \div RandomGrain

\* getRandomJoke with Math.random() = r / RandomGrain, on an array of jokes.
RandomJokeOf(array, r) == At(array, randomIndex(r, Len(array)))

\* getRandomJoke with Math.round in the place of Math.floor.
getRandomJokeRounded(r) ==
  At(jokes, ((2 * r * Len(jokes)) + RandomGrain) \div (2 * RandomGrain))

\* getRandomJoke with Math.random() = r / RandomGrain.
getRandomJoke(r) == RandomJokeOf(jokes, r)

\* getGroupsWithMember without the membership test.
getGroupsIgnoringMember(groups, memberID) ==
  SelectSeq(groups, LAMBDA group : group.is_archived = FALSE)

getGroupsWithMember(groups, memberID) ==
  SelectSeq(groups, LAMBDA group :
    LET isNotArchived == group.is_archived = FALSE
        botBelongsToGroup == memberID \in group.members
    IN  isNotArchived /\ botBelongsToGroup)

\* getChannelsWithMember without the is_archived test.
getChannelsIgnoringArchived(channels) ==
  SelectSeq(channels, LAMBDA channel : channel.is_member)

getChannelsWithMember(channels) ==
  SelectSeq(channels, LAMBDA channel :
    channel.is_archived = FALSE /\ channel.is_member)

\* addChannel without the channelExists guard.
addChannelUnguarded(list, channel) == Append(list, channel)

addChannel(list, channel) ==
  LET channelExists == \E i \in 1..Len(list) : list[i].id = channel.id
  IN  IF ~channelExists THEN Append(list, channel) ELSE list

\* removeChannel with the filter's comparison inverted (=== for !==).
removeChannelInverted(list, channelID) ==
  SelectSeq(list, LAMBDA channel : channel.id = channelID)

removeChannel(list, channelID) ==
  SelectSeq(list, LAMBDA channel : channel.id # channelID)

\* addGroup without the check of lines 553-555.
addGroupUnguarded(list, group) == Append(list, group)

addGroup(list, group) ==
  LET groupExists == \E i \in 1..Len(list) : list[i].id = group.id
  IN  IF ~groupExists THEN Append(list, group) ELSE list

\* removeGroup that drops the head of the list whatever its id.
removeGroupHead(list, groupID) ==
  IF list = <<>> THEN list ELSE Tail(list)

removeGroup(list, groupID) ==
  SelectSeq(list, LAMBDA group : group.id # groupID)

Snapshot == [channels |-> botChannels, groups |-> botGroups]

---------------------------------------------------------------------------
(* The message router: the hears() registrations of lines 392-455 and the  *)
(* way the controller dispatches a message event to them.  A text is a     *)
(* sequence of characters.                                                 *)

\* Longest message text, in phrases of Phrases.
MaxWords == 2

UpperCase == <<"A", "B", "C", "D", "E", "F", "G", "H", "I", "J", "K", "L", "M",
               "N", "O", "P", "Q", "R", "S", "T", "U", "V", "W", "X", "Y", "Z">>
LowerCase == <<"a", "b", "c", "d", "e", "f", "g", "h", "i", "j", "k", "l", "m",
               "n", "o", "p", "q", "r", "s", "t", "u", "v", "w", "x", "y", "z">>

\* The phrases message texts are made of.
Phrases ==
  {<<"h", "i">>,
   <<"t", "h", "i", "s">>,
   <<"h", "e", "l", "l", "o">>,
   <<"h", "e", "l", "p">>,
   <<"H", "e", "l", "p">>,
   <<"t", "h", "a", "n", "k", "s">>,
   <<"t", "h", "a", "n", "k">>,
   <<"y", "o", "u">>,
   <<"t", "e", "l", "l", " ", "m", "e", " ", "a", " ", "j", "o", "k", "e">>,
   <<"j", "o", "k", "e", " ", "o", "f", " ", "t", "h", "e", " ", "d", "a", "y">>,
   <<"p", "l", "e", "a", "s", "e">>}

RECURSIVE Join(_)
Join(words) ==
  IF words = <<>> THEN <<>>
  ELSE IF Len(words) = 1 THEN words[1]
  ELSE words[1] \o <<" ">> \o Join(Tail(words))

\* The message texts: up to MaxWords phrases separated by one space ("" included).
Texts == {Join(ws) : ws \in UNION {[1..n -> Phrases] : n \in 0..MaxWords}}

\* The event types the Slack controller gives a message.
MessageTypes == {"direct_message", "direct_mention", "mention", "ambient"}

\* this.regexes (lines 294-300): search is a pattern without anchors, word one
\* between two \\b, whole one between ^ and $.
regexes ==
  [salutations |-> <<[kind |-> "word", lit |-> <<"h", "i">>],
                     [kind |-> "search", lit |-> <<"h", "i", "y", "a">>],
                     [kind |-> "search", lit |-> <<"h", "e", "y">>],
                     [kind |-> "search", lit |-> <<"h", "e", "l", "l", "o">>],
                     [kind |-> "search", lit |-> <<"g", "r", "e", "e", "t", "i", "n", "g", "s">>]>>,
   gratitude |-> <<[kind |-> "word", lit |-> <<"t", "h", "a", "n", "k", "s">>],
                   [kind |-> "search", lit |-> <<"t", "h", "a", "n", "k", " ", "y", "o", "u">>]>>,
   jokeOfTheDayRequests |-> <<[kind |-> "search", lit |-> <<"j", "o", "k", "e", " ", "o", "f", " ", "t", "h", "e", " ", "d", "a", "y">>]>>,
   randomJokeRequests |-> <<[kind |-> "search", lit |-> <<"t", "e", "l", "l", " ", "m", "e", " ", "a", " ", "j", "o", "k", "e">>]>>,
   helpRequests |-> <<[kind |-> "whole", lit |-> <<"h", "e", "l", "p">>]>>]

Letters == {UpperCase[i] : i \in 1..26} \cup {LowerCase[i] : i \in 1..26}

\* The flag 'i' of the RegExp hears() builds: letters compare by their lower case.
LowerOf ==
  [c \in Letters \cup {" "} |->
     IF \E i \in 1..26 : UpperCase[i] = c
     THEN LowerCase[CHOOSE i \in 1..26 : UpperCase[i] = c]
     ELSE c]

ToLower(c) == LowerOf[c]

\* \w of a regular expression, over the characters texts are made of.
IsWordChar(c) == c \in Letters

\* lit occurs in text from position i on.
OccursAt(text, lit, i) ==
  /\ i + Len(lit) - 1 <= Len(text)
  /\ \A k \in 1..Len(lit) : ToLower(text[i + k - 1]) = ToLower(lit[k])

\* \b between text[p] and text[p + 1] (p = 0: the start, p = Len(text): the end).
WordBoundary(text, p) ==
  LET before == p >= 1 /\ IsWordChar(text[p])
      after == p + 1 <= Len(text) /\ IsWordChar(text[p + 1])
  IN  before # after

\* message.text.match(new RegExp(keyword, 'i')) finds a match.
Test(keyword, text) ==
  CASE keyword.kind = "search" ->
         \E i \in 1..Len(text) : OccursAt(text, keyword.lit, i)
    [] keyword.kind = "word" ->
         \E i \in 1..Len(text) :
           /\ OccursAt(text, keyword.lit, i)
           /\ WordBoundary(text, i - 1)
           /\ WordBoundary(text, i + Len(keyword.lit) - 1)
    [] keyword.kind = "whole" ->
         Len(text) = Len(keyword.lit) /\ OccursAt(text, keyword.lit, 1)

DirectAndMention == <<"direct_message", "direct_mention", "mention">>
DirectOnly == <<"direct_message", "direct_mention">>

\* The hears() calls with the gratitude call moved to the front.
HearsGratitudeFirst ==
  <<[keywords |-> regexes.gratitude, events |-> DirectAndMention, cb |-> "gratitude"],
    [keywords |-> regexes.salutations, events |-> DirectAndMention, cb |-> "salutation"],
    [keywords |-> regexes.randomJokeRequests, events |-> DirectOnly, cb |-> "randomJoke"],
    [keywords |-> regexes.jokeOfTheDayRequests, events |-> DirectOnly, cb |-> "jokeOfTheDay"],
    [keywords |-> regexes.helpRequests, events |-> DirectOnly, cb |-> "help"]>>

\* The hears() call for help with an unanchored pattern.
HearsHelpUnanchored ==
  <<[keywords |-> regexes.salutations, events |-> DirectAndMention, cb |-> "salutation"],
    [keywords |-> regexes.randomJokeRequests, events |-> DirectOnly, cb |-> "randomJoke"],
    [keywords |-> regexes.jokeOfTheDayRequests, events |-> DirectOnly, cb |-> "jokeOfTheDay"],
    [keywords |-> <<[kind |-> "search", lit |-> regexes.helpRequests[1].lit]>>,
     events |-> DirectOnly, cb |-> "help"],
    [keywords |-> regexes.gratitude, events |-> DirectAndMention, cb |-> "gratitude"]>>

\* The hears() calls of setupEventListeners, in the order they are made
\* (lines 392-455).
Hears ==
  <<[keywords |-> regexes.salutations, events |-> DirectAndMention, cb |-> "salutation"],
    [keywords |-> regexes.randomJokeRequests, events |-> DirectOnly, cb |-> "randomJoke"],
    [keywords |-> regexes.jokeOfTheDayRequests, events |-> DirectOnly, cb |-> "jokeOfTheDay"],
    [keywords |-> regexes.helpRequests, events |-> DirectOnly, cb |-> "help"],
    [keywords |-> regexes.gratitude, events |-> DirectAndMention, cb |-> "gratitude"]>>

\* hears() registers, keyword by keyword, one listener on each of its events.
RECURSIVE ListenersOf(_, _, _)
ListenersOf(hears, k, type) ==
  IF k > Len(hears.keywords) THEN <<>>
  ELSE (IF \E e \in 1..Len(hears.events) : hears.events[e] = type
        THEN <<[keyword |-> hears.keywords[k], cb |-> hears.cb]>>
        ELSE <<>>) \o ListenersOf(hears, k + 1, type)

\* controller.events[type]: the listeners of an event type, in registration order.
RECURSIVE Listeners(_, _)
Listeners(h, type) ==
  IF h > Len(Hears) THEN <<>>
  ELSE ListenersOf(Hears[h], 1, type) \o Listeners(h + 1, type)

\* controller.trigger: the listeners run in order; one whose keyword matches the
\* text calls its callback and returns false, which ends the dispatch.
RECURSIVE Trigger(_, _)
Trigger(bound, text) ==
  IF bound = <<>> THEN <<>>
  ELSE IF text # <<>> /\ Test(Head(bound).keyword, text)
       THEN <<Head(bound).cb>>
       ELSE Trigger(Tail(bound), text)

\* The mention clause built whether or not the message has a user.
userGreetingAlways(user) == <<" <@", user, ">">>

\* ` <@${message.user}>`, or '' for a message without a user.
userGreeting(user) == IF user # "undefined" THEN <<" <@", user, ">">> ELSE <<>>

\* The replies with a joke-of-the-day request answered by a new random pick.
RepliesRandomJokeOfTheDay(cb, user, r) ==
  LET ack == IF user # "undefined"
             THEN <<<<"Sure thing <@", user, ">.">>>> ELSE <<>>
  IN  CASE cb = "salutation" -> << <<"Howdy">> \o userGreeting(user) \o <<".">> >>
        [] cb = "randomJoke" -> ack \o << <<">", getRandomJoke(r)>> >>
        [] cb = "jokeOfTheDay" -> ack \o << <<">", getRandomJoke(r)>> >>
        [] cb = "help" -> << <<"Ask me to tell you a joke, ...">> >>
        [] cb = "gratitude" -> << <<"You're welcome">> \o userGreeting(user) \o <<".">> >>

\* The replies with the joke line of a joke request sent before its
\* acknowledgment.
RepliesJokeFirst(cb, user, r) ==
  LET ack == IF user # "undefined"
             THEN <<<<"Sure thing <@", user, ">.">>>> ELSE <<>>
  IN  CASE cb = "salutation" -> << <<"Howdy">> \o userGreeting(user) \o <<".">> >>
        [] cb = "randomJoke" -> << <<">", getRandomJoke(r)>> >> \o ack
        [] cb = "jokeOfTheDay" -> << <<">", jokeOfTheDay>> >> \o ack
        [] cb = "help" -> << <<"Ask me to tell you a joke, ...">> >>
        [] cb = "gratitude" -> << <<"You're welcome">> \o userGreeting(user) \o <<".">> >>

\* What the callback of a hears() call sends (lines 395-454), in order.
Replies(cb, user, r) ==
  LET ack == IF user # "undefined"
             THEN <<<<"Sure thing <@", user, ">.">>>> ELSE <<>>
  IN  CASE cb = "salutation" -> << <<"Howdy">> \o userGreeting(user) \o <<".">> >>
        [] cb = "randomJoke" -> ack \o << <<">", getRandomJoke(r)>> >>
        [] cb = "jokeOfTheDay" -> ack \o << <<">", jokeOfTheDay>> >>
        [] cb = "help" -> << <<"Ask me to tell you a joke, ...">> >>
        [] cb = "gratitude" -> << <<"You're welcome">> \o userGreeting(user) \o <<".">> >>

RECURSIVE AllReplies(_, _, _)
AllReplies(cbs, user, r) ==
  IF cbs = <<>> THEN <<>>
  ELSE Replies(Head(cbs), user, r) \o AllReplies(Tail(cbs), user, r)

---------------------------------------------------------------------------
(* controller.events: the listeners that on() and hears() register.       *)

\* The event types setupEventListeners binds with on(), in the order of lines
\* 354-389.
OnEvents == <<"bot_channel_join", "bot_group_join", "channel_joined",
              "channel_left", "group_joined", "group_left">>

\* The event types the controller dispatches.
EventTypes == ToSet(OnEvents) \cup MessageTypes

\* The keyword of a listener bound with on(): it runs on every event of its type.
AnyEvent == [kind |-> "event", lit |-> <<>>]

\* createController (lines 322-327): a new controller, without listeners.
createController == [type \in EventTypes |-> <<>>]

\* controller.on(type, cb): one more listener at the end of those of the type.
On(events, type) ==
  [events EXCEPT ![type] = Append(@, [keyword |-> AnyEvent, cb |-> type])]

RECURSIVE OnAll(_, _, _)
OnAll(events, types, i) ==
  IF i > Len(types) THEN events ELSE OnAll(On(events, types[i]), types, i + 1)

\* setupEventListeners (lines 352-456): the six on() calls, then the hears()
\* calls.
setupEventListeners(events) ==
  LET bound == OnAll(events, OnEvents, 1)
  IN  [type \in EventTypes |-> bound[type] \o Listeners(1, type)]

\* this.regexes.jokeRequests of the broadcasting revision (line 607).
jokeRequests == <<[kind |-> "search", lit |-> <<"j", "o", "k", "e">>]>>

\* The hears() calls of the broadcasting revision (lines 682-727).
HearsBroadcast ==
  <<[keywords |-> regexes.salutations, events |-> DirectAndMention, cb |-> "salutation"],
    [keywords |-> jokeRequests, events |-> DirectAndMention, cb |-> "randomJoke"],
    [keywords |-> regexes.helpRequests, events |-> DirectOnly, cb |-> "help"],
    [keywords |-> regexes.gratitude, events |-> DirectAndMention, cb |-> "gratitude"]>>

RECURSIVE ListenersBroadcast(_, _)
ListenersBroadcast(h, type) ==
  IF h > Len(HearsBroadcast) THEN <<>>
  ELSE ListenersOf(HearsBroadcast[h], 1, type) \o ListenersBroadcast(h + 1, type)

\* setupEventListeners of the broadcasting revision (lines 670-728): two on()
\* calls, none for a membership event, then the hears() calls.
setupEventListenersBroadcast(events) ==
  LET bound == OnAll(events, SubSeq(OnEvents, 1, 2), 1)
  IN  [type \in EventTypes |-> bound[type] \o ListenersBroadcast(1, type)]

\* The callbacks of the listeners an event without text runs: all of its type.
Handlers(bound) == [i \in 1..Len(bound) |-> bound[i].cb]

---------------------------------------------------------------------------
(* The membership-tracking revision (lines 260-574).                       *)

\* The constructor up to the call of spawnBotAndStartRTM (lines 269-306).
Init ==
  /\ jokes \in JokeCollections
  /\ \E r \in 0..(RandomGrain - 1) : jokeOfTheDay = getRandomJoke(r)
  /\ jokeOfTheDayCronJob = CronJob
  /\ rtm = "connecting"
  /\ rtmPromise = "pending"
  /\ botInstance = null
  /\ botIdentity = null
  /\ botUser = null
  /\ botGroups = nullList
  /\ botChannels = nullList
  /\ event = NoEvent
  /\ pre = [channels |-> nullList, groups |-> nullList]
  /\ thrown = "none"
  /\ outbox = <<>>
  /\ fired = <<>>
  /\ listeners = setupEventListeners(createController)
  /\ giphy = 0

\* A start whose socket delivers events while the fulfilment handler has not
\* run: the fields are still null.
RtmStartedSeedLater(payload) ==
  /\ rtm = "connecting"
  /\ rtmPromise = "pending"
  /\ rtm' = "open"
  /\ rtmPromise' = "resolved"
  /\ event' = [type |-> "rtm_open", payload |-> payload]
  /\ pre' = Snapshot
  /\ thrown' = "none"
  /\ fired' = <<>>
  /\ UNCHANGED <<giphy, listeners, jokes, jokeOfTheDay, jokeOfTheDayCronJob, outbox,
                 botInstance, botIdentity, botUser, botGroups, botChannels>>

\* startRTM calls back with (null, bot, payload): the promise resolves and its
\* fulfilment handler (lines 307-313) runs before any other event is delivered.
RtmStarted(payload) ==
  /\ rtm = "connecting"
  /\ rtmPromise = "pending"
  /\ rtm' = "open"
  /\ rtmPromise' = "resolved"
  /\ botInstance' = [api |-> "slack"]
  /\ botIdentity' = [id |-> BotId]
  /\ botUser' = Find(payload.users, BotId)
  /\ botGroups' = getGroupsWithMember(payload.groups, BotId)
  /\ botChannels' = getChannelsWithMember(payload.channels)
  /\ event' = [type |-> "rtm_open", payload |-> payload]
  /\ pre' = Snapshot
  /\ thrown' = "none"
  /\ fired' = <<>>
  /\ UNCHANGED <<giphy, listeners, jokes, jokeOfTheDay, jokeOfTheDayCronJob, outbox>>

\* startRTM calls back with an error: reject(err), then resolve() on the settled
\* promise does nothing, and the rejection handler (lines 314-316) throws.
RtmFailed ==
  /\ rtm = "connecting"
  /\ rtmPromise = "pending"
  /\ rtm' = "failed"
  /\ rtmPromise' = "rejected"
  /\ event' = [type |-> "rtm_error"]
  /\ pre' = Snapshot
  /\ thrown' = "Error"
  /\ fired' = <<>>
  /\ UNCHANGED <<giphy, listeners, jokes, jokeOfTheDay, jokeOfTheDayCronJob, botInstance,
                 botIdentity, botUser, botGroups, botChannels, outbox>>

\* The socket drops.
RtmClosed ==
  /\ rtm = "open"
  /\ rtm' = "closed"
  /\ event' = [type |-> "rtm_close"]
  /\ pre' = Snapshot
  /\ thrown' = "none"
  /\ fired' = <<>>
  /\ UNCHANGED <<giphy, listeners, jokes, jokeOfTheDay, jokeOfTheDayCronJob, rtmPromise,
                 botInstance, botIdentity, botUser, botGroups, botChannels, outbox>>

\* A reconnection that runs setupEventListeners again on the same controller.
RtmReconnectedRegistering(payload) ==
  /\ rtm = "closed"
  /\ rtm' = "open"
  /\ listeners' = setupEventListeners(listeners)
  /\ event' = [type |-> "rtm_open", payload |-> payload]
  /\ pre' = Snapshot
  /\ thrown' = "none"
  /\ fired' = <<>>
  /\ UNCHANGED <<giphy, jokes, jokeOfTheDay, jokeOfTheDayCronJob, rtmPromise,
                 botInstance, botIdentity, botUser, botGroups, botChannels, outbox>>

\* retry: Infinity (line 325): the library reconnects and receives a new payload.
\* The promise of spawnBotAndStartRTM is settled, so the handler of lines
\* 307-313 does not run again.
RtmReconnected(payload) ==
  /\ rtm = "closed"
  /\ rtm' = "open"
  /\ event' = [type |-> "rtm_open", payload |-> payload]
  /\ pre' = Snapshot
  /\ thrown' = "none"
  /\ fired' = <<>>
  /\ UNCHANGED <<giphy, listeners, jokes, jokeOfTheDay, jokeOfTheDayCronJob, rtmPromise,
                 botInstance, botIdentity, botUser, botGroups, botChannels, outbox>>

\* The controller dispatches a membership event: every listener registered for
\* its type runs (lines 364-389), each applying `update` to the tracked lists;
\* on a list that is still null the find / filter call raises a TypeError.  The
\* updates are idempotent (addChannel, removeChannel and the like), so the lists
\* after several runs are the lists after one.
MembershipEvent(ev, list, channels, groups) ==
  /\ rtm = "open"
  /\ event' = ev
  /\ pre' = Snapshot
  /\ fired' = Handlers(listeners[ev.type])
  /\ IF listeners[ev.type] = <<>>
     THEN thrown' = "none" /\ UNCHANGED <<botChannels, botGroups>>
     ELSE IF list = nullList
          THEN thrown' = "TypeError" /\ UNCHANGED <<botChannels, botGroups>>
          ELSE thrown' = "none" /\ botChannels' = channels /\ botGroups' = groups
  /\ UNCHANGED <<giphy, listeners, jokes, jokeOfTheDay, jokeOfTheDayCronJob, rtm, rtmPromise,
                 botInstance, botIdentity, botUser, outbox>>

\* controller.on('channel_joined') (lines 364-368).
channel_joined(channel) ==
  MembershipEvent([type |-> "channel_joined", channel |-> channel], botChannels,
                  addChannel(botChannels, channel), botGroups)

\* controller.on('channel_left') (lines 371-375).
channel_left(channelID) ==
  MembershipEvent([type |-> "channel_left", channel |-> channelID], botChannels,
                  removeChannel(botChannels, channelID), botGroups)

\* controller.on('group_joined') (lines 378-382).
group_joined(group) ==
  MembershipEvent([type |-> "group_joined", channel |-> group], botGroups,
                  botChannels, addGroup(botGroups, group))

\* controller.on('group_left') (lines 385-389).
group_left(groupID) ==
  MembershipEvent([type |-> "group_left", channel |-> groupID], botGroups,
                  botChannels, removeGroup(botGroups, groupID))

\* The cron job of lines 461-468 ticks (15:00:00): setJokeOfTheDay.
setJokeOfTheDay(r) ==
  /\ jokeOfTheDayCronJob = CronJob
  /\ jokeOfTheDay' = getRandomJoke(r)
  /\ event' = [type |-> "tick"]
  /\ pre' = Snapshot
  /\ thrown' = "none"
  /\ fired' = <<>>
  /\ UNCHANGED <<giphy, listeners, jokes, jokeOfTheDayCronJob, rtm, rtmPromise, botInstance,
                 botIdentity, botUser, botGroups, botChannels, outbox>>

Next ==
  \/ \E payload \in Payloads : RtmStarted(payload)
  \/ RtmFailed
  \/ RtmClosed
  \/ \E payload \in Payloads : RtmReconnected(payload)
  \/ \E channel \in JoinedChannels : channel_joined(channel)
  \/ \E channelID \in ChannelIds : channel_left(channelID)
  \/ \E group \in JoinedGroups : group_joined(group)
  \/ \E groupID \in GroupIds : group_left(groupID)
  \/ \E r \in 0..(RandomGrain - 1) : setJokeOfTheDay(r)

Spec == Init /\ [][Next]_vars

Seeded == botChannels # nullList /\ botGroups # nullList

ChannelKept(channel) == channel.is_archived = FALSE /\ channel.is_member = TRUE
GroupKept(group) == group.is_archived = FALSE /\ BotId \in group.members

---------------------------------------------------------------------------
(* Claims about the membership-tracking revision, checked under Spec.      *)

\* C1 (as claimed): after every successful connection, the first and each
\* reconnection alike, the tracked channels and groups are the filtered
\* channels and groups of that connection's payload.
C1_SeededFromNewestPayload ==
  event.type = "rtm_open" =>
    /\ botChannels = getChannelsWithMember(event.payload.channels)
    /\ botGroups = getGroupsWithMember(event.payload.groups, BotId)

\* C2: once seeded, whatever join / leave events follow, the tracked lists hold
\* no archived destination, no channel the bot is not a member of and no group
\* whose members lack the bot.
C2_SnapshotFiltered ==
  Seeded =>
    /\ \A i \in 1..Len(botChannels) :
         ~botChannels[i].is_archived /\ botChannels[i].is_member
    /\ \A i \in 1..Len(botGroups) :
         ~botGroups[i].is_archived /\ BotId \in botGroups[i].members

\* C2 witness: a seed that dropped an archived channel, then a join that grew
\* the channel list to two entries.
C2_Witness ==
  /\ event.type = "channel_joined"
  /\ Len(botChannels) = 2
  /\ Len(pre.channels) = 1
  /\ botGroups # <<>>

\* C3: the first connection seeds exactly the payload channels that are not
\* archived and have is_member, and exactly the payload groups that are not
\* archived and list the bot among their members, each once.
C3_SeedIsExactFilter ==
  (event.type = "rtm_open" /\ pre.channels = nullList /\ pre.groups = nullList) =>
    /\ ToSet(botChannels) = {c \in ToSet(event.payload.channels) : ChannelKept(c)}
    /\ ToSet(botGroups) = {g \in ToSet(event.payload.groups) : GroupKept(g)}
    /\ DistinctIds(botChannels)
    /\ DistinctIds(botGroups)

\* C3 witness: a seed from a payload with an archived channel, a kept channel, a
\* group without the bot and a kept group.
C3_Witness ==
  /\ event.type = "rtm_open"
  /\ pre.channels = nullList
  /\ \E c \in ToSet(event.payload.channels) : c.is_archived
  /\ \E g \in ToSet(event.payload.groups) : BotId \notin g.members
  /\ Len(botChannels) = 1
  /\ Len(botGroups) = 1

\* C7: addChannel and addGroup are idempotent by id: on every tracked list, adding
\* twice equals adding once and adding a present id changes nothing; a join event
\* for a present id leaves both lists as they were.
C7_AddIdempotent ==
  Seeded =>
    /\ \A c \in Channels :
         /\ addChannel(addChannel(botChannels, c), c) = addChannel(botChannels, c)
         /\ c.id \in Ids(botChannels) => addChannel(botChannels, c) = botChannels
    /\ \A g \in Groups :
         /\ addGroup(addGroup(botGroups, g), g) = addGroup(botGroups, g)
         /\ g.id \in Ids(botGroups) => addGroup(botGroups, g) = botGroups
    /\ (event.type = "channel_joined" /\ event.channel.id \in Ids(pre.channels))
         => Snapshot = pre
    /\ (event.type = "group_joined" /\ event.channel.id \in Ids(pre.groups))
         => Snapshot = pre

\* C7 witness: a channel_joined event for an id that was already tracked.
C7_Witness ==
  /\ event.type = "channel_joined"
  /\ pre.channels # nullList
  /\ event.channel.id \in Ids(pre.channels)
  /\ Len(botChannels) = 2

\* C8: a channel_left (group_left) event for an id that is not tracked leaves
\* both lists unchanged and raises nothing.
C8_RemoveAbsentIsNoOp ==
  /\ (event.type = "channel_left" /\ pre.channels # nullList
        /\ event.channel \notin Ids(pre.channels))
       => (Snapshot = pre /\ thrown = "none")
  /\ (event.type = "group_left" /\ pre.groups # nullList
        /\ event.channel \notin Ids(pre.groups))
       => (Snapshot = pre /\ thrown = "none")

\* C8 witness: a channel_left event for an untracked id while another channel
\* is tracked.
C8_Witness ==
  /\ event.type = "channel_left"
  /\ pre.channels # nullList
  /\ event.channel \notin Ids(pre.channels)
  /\ botChannels # <<>>

\* C9: channel_left for X removes channel X and nothing else: X is gone, every
\* other channel stays, the groups are untouched; group_left likewise.
C9_LeftRemovesExactlyOne ==
  /\ (event.type = "channel_left" /\ pre.channels # nullList) =>
       /\ event.channel \notin Ids(botChannels)
       /\ ToSet(botChannels) = {c \in ToSet(pre.channels) : c.id # event.channel}
       /\ botGroups = pre.groups
  /\ (event.type = "group_left" /\ pre.groups # nullList) =>
       /\ event.channel \notin Ids(botGroups)
       /\ ToSet(botGroups) = {g \in ToSet(pre.groups) : g.id # event.channel}
       /\ botChannels = pre.channels

\* C9 witness: group_left for the second of two tracked groups, with a channel
\* tracked as well.
C9_Witness ==
  /\ event.type = "group_left"
  /\ Len(pre.groups) = 2
  /\ event.channel = pre.groups[2].id
  /\ Len(botGroups) = 1
  /\ botChannels # <<>>

\* The number of listeners of an event type that call the callback cb.
Registrations(type, cb) ==
  Cardinality({i \in 1..Len(listeners[type]) : listeners[type][i].cb = cb})

MembershipEvents == {"channel_joined", "channel_left", "group_joined", "group_left"}

\* C12: across any number of disconnections and reconnections every membership
\* listener and every intent handler stays registered exactly once (an intent:
\* one listener per pattern on each event type of its scopes, none elsewhere),
\* and a membership event runs its handler exactly once.
C12_RegisteredOnce ==
  /\ \A i \in 1..Len(OnEvents) : Handlers(listeners[OnEvents[i]]) = <<OnEvents[i]>>
  /\ \A h \in 1..Len(Hears) : \A type \in MessageTypes :
       Registrations(type, Hears[h].cb) =
         IF \E e \in 1..Len(Hears[h].events) : Hears[h].events[e] = type
         THEN Len(Hears[h].keywords) ELSE 0
  /\ event.type \in MembershipEvents => fired = <<event.type>>

\* C12 witness: the socket reopened on a bot whose lists were seeded by an
\* earlier connection, and every membership event still has one listener.
C12_Witness ==
  /\ event.type = "rtm_open"
  /\ pre.channels # nullList
  /\ \A t \in MembershipEvents : Len(listeners[t]) = 1

\* C14 (as claimed): when the first connection reports an error the bot does not
\* go on without a connection: the tracked lists and the identity are never
\* seeded, and no scheduled action runs afterwards.
C14_FailedStartStopsTheBot ==
  rtm = "failed" =>
    /\ botChannels = nullList
    /\ botGroups = nullList
    /\ botIdentity = null
    /\ event.type # "tick"

\* C18: for every non-empty joke collection the random pick computes an index
\* within 0..length-1 and returns an element of the collection, never
\* undefined, and every element of the collection is a possible result; the
\* joke of the day, picked that way, is an element of the collection.
C18_RandomPickIsAnElement ==
  /\ \A r \in 0..(RandomGrain - 1) :
       /\ randomIndex(r, Len(jokes)) \in 0..(Len(jokes) - 1)
       /\ getRandomJoke(r) # "undefined"
       /\ \E j \in 1..Len(jokes) : getRandomJoke(r) = jokes[j]
  /\ \A j \in 1..Len(jokes) : \E r \in 0..(RandomGrain - 1) : getRandomJoke(r) = jokes[j]
  /\ \E j \in 1..Len(jokes) : jokeOfTheDay = jokes[j]

\* C18 witness: a tick picked the last joke of a collection of the greatest
\* length.
C18_Witness ==
  /\ event.type = "tick"
  /\ Len(jokes) = MaxJokes
  /\ jokeOfTheDay = jokes[MaxJokes]

\* C20 (as claimed): the joke of the day changes daily: the joke served after a
\* tick differs from the joke served before it.
C20_JokeChangesAtEachTick ==
  [][event'.type = "tick" => jokeOfTheDay' # jokeOfTheDay]_vars

\* C21: in every state after the seed, whatever join and leave events came
\* (a join of an id already tracked, a join after a leave), the tracked
\* channels hold at most one entry per id, and so do the tracked groups.
C21_OneEntryPerId ==
  Seeded => (DistinctIds(botChannels) /\ DistinctIds(botGroups))

\* C21 witness: a group_joined event for a group that is already tracked,
\* arriving at the end of a list of two, left the two entries as they were.
C21_Witness ==
  /\ event.type = "group_joined"
  /\ Len(pre.groups) = 2
  /\ event.channel.id = pre.groups[2].id
  /\ pre.groups[1].id = "G2"
  /\ botGroups = pre.groups

---------------------------------------------------------------------------
(* The broadcasting revision (lines 581-799).                              *)

\* The constructor up to the call of spawnBotAndStartRTM (lines 589-618): the
\* cron job is not created here.
InitBroadcast ==
  /\ jokes \in JokeCollections
  /\ jokeOfTheDay = "undefined"
  /\ jokeOfTheDayCronJob = null
  /\ rtm = "connecting"
  /\ rtmPromise = "pending"
  /\ botInstance = null
  /\ botIdentity = null
  /\ botUser = null
  /\ botGroups = nullList
  /\ botChannels = nullList
  /\ event = NoEvent
  /\ pre = [channels |-> nullList, groups |-> nullList]
  /\ thrown = "none"
  /\ outbox = <<>>
  /\ fired = <<>>
  /\ listeners = setupEventListenersBroadcast(createController)
  /\ giphy = 0

\* startRTM calls back with (null, bot, payload): the two fulfilment handlers of
\* rtmPromise run in order (lines 620-625, then 631-635) before any other event;
\* the second one seeds the lists and only then creates the cron job.
RtmStartedBroadcast(payload) ==
  /\ rtm = "connecting"
  /\ rtmPromise = "pending"
  /\ rtm' = "open"
  /\ rtmPromise' = "resolved"
  /\ botInstance' = [api |-> "slack"]
  /\ botIdentity' = [id |-> BotId]
  /\ botUser' = Find(payload.users, BotId)
  /\ botGroups' = getGroupsWithMember(payload.groups, BotId)
  /\ botChannels' = getChannelsWithMember(payload.channels)
  /\ jokeOfTheDayCronJob' = CronJob
  /\ event' = [type |-> "rtm_open", payload |-> payload]
  /\ pre' = Snapshot
  /\ thrown' = "none"
  /\ fired' = <<>>
  /\ UNCHANGED <<giphy, listeners, jokes, jokeOfTheDay, outbox>>

\* startRTM calls back with an error: the promise is rejected, the rejection
\* handler of lines 626-628 throws and the second then (631-635) never runs.
RtmFailedBroadcast ==
  /\ rtm = "connecting"
  /\ rtmPromise = "pending"
  /\ rtm' = "failed"
  /\ rtmPromise' = "rejected"
  /\ event' = [type |-> "rtm_error"]
  /\ pre' = Snapshot
  /\ thrown' = "Error"
  /\ fired' = <<>>
  /\ UNCHANGED <<giphy, listeners, jokes, jokeOfTheDay, jokeOfTheDayCronJob, botInstance,
                 botIdentity, botUser, botGroups, botChannels, outbox>>

\* The cron job exists from construction on (as in the revision of lines 302-303).
TimerArmedAtConstruction == TRUE

\* Whether a cron job is there to run onTick when the clock reaches 15:00:00.
TimerArmed == jokeOfTheDayCronJob = CronJob

\* [].concat(this.botGroups): the channels are left out.
DestinationsGroupsOnly == botGroups

\* [].concat(this.botGroups, this.botChannels): a null argument is appended as
\* one null element, which is what nullList holds.
Destinations == botGroups \o botChannels

\* The iteration of the forEach of lines 747-755 that raises a TypeError, if any:
\* this.botInstance.api, obj.id or this.botUser.profile on null / undefined.
Raises(i) ==
  \/ botInstance = null
  \/ Destinations[i] = null
  \/ botUser = null
  \/ botUser = undefined

\* The postMessage calls postJokeOfTheDay issues (lines 747-755), up to the
\* iteration that raises.
Posted(randomJoke) ==
  LET n == IF \E i \in 1..Len(Destinations) : Raises(i)
           THEN (CHOOSE i \in 1..Len(Destinations) :
                   Raises(i) /\ \A j \in 1..(i - 1) : ~Raises(j)) - 1
           ELSE Len(Destinations)
  IN  [i \in 1..n |->
         [as_user |-> FALSE, channel |-> Destinations[i].id,
          icon_url |-> botUser.profile.image_192,
          text |-> <<"Joke of the day:", randomJoke>>, username |-> "norrisbot"]]

\* The clock reaches 15:00:00: onTick runs postJokeOfTheDay (lines 744-756) if
\* the cron job exists; otherwise nothing runs.
postJokeOfTheDay(r) ==
  /\ event' = [type |-> "tick"]
  /\ pre' = Snapshot
  /\ IF TimerArmed
     THEN /\ outbox' = Posted(getRandomJoke(r))
          /\ thrown' = IF \E i \in 1..Len(Destinations) : Raises(i)
                       THEN "TypeError" ELSE "none"
     ELSE /\ outbox' = <<>>
          /\ thrown' = "none"
  /\ fired' = <<>>
  /\ UNCHANGED <<giphy, listeners, jokes, jokeOfTheDay, jokeOfTheDayCronJob, rtm, rtmPromise,
                 botInstance, botIdentity, botUser, botGroups, botChannels>>

NextBroadcast ==
  \/ \E payload \in Payloads : RtmStartedBroadcast(payload)
  \/ RtmFailedBroadcast
  \/ RtmClosed
  \/ \E payload \in Payloads : RtmReconnected(payload)
  \/ \E r \in 0..(RandomGrain - 1) : postJokeOfTheDay(r)

SpecBroadcast == InitBroadcast /\ [][NextBroadcast]_vars

---------------------------------------------------------------------------
(* Claims about the broadcasting revision, checked under SpecBroadcast.    *)

\* C4: when the daily trigger time comes before the lists were ever seeded,
\* nothing is sent and nothing is raised; a trigger after the seed sends to
\* every tracked destination without raising.
C4_NoFiringBeforeSeed ==
  /\ ~Seeded => jokeOfTheDayCronJob = null
  /\ (event.type = "tick" /\ ~Seeded) => (outbox = <<>> /\ thrown = "none")
  /\ (event.type = "tick" /\ Seeded) =>
       (thrown = "none" /\ Len(outbox) = Len(botGroups) + Len(botChannels))

\* C4 witness: the trigger time has come while the lists are still null.
C4_Witness ==
  /\ event.type = "tick"
  /\ botGroups = nullList
  /\ botChannels = nullList
  /\ outbox = <<>>
  /\ thrown = "none"

\* C10: a firing after the seed issues exactly one postMessage per tracked
\* group and channel, none to any other destination, all with the same joke,
\* which is one of the loaded jokes.
C10_OneSendPerDestination ==
  (event.type = "tick" /\ Seeded) =>
    /\ thrown = "none"
    /\ \A d \in Ids(botGroups) \cup Ids(botChannels) :
         Cardinality({i \in 1..Len(outbox) : outbox[i].channel = d}) = 1
    /\ \A i \in 1..Len(outbox) :
         outbox[i].channel \in Ids(botGroups) \cup Ids(botChannels)
    /\ \E j \in 1..Len(jokes) :
         \A i \in 1..Len(outbox) : outbox[i].text = <<"Joke of the day:", jokes[j]>>

\* C10 witness: a firing that posted to two groups and two channels.
C10_Witness ==
  /\ event.type = "tick"
  /\ Len(botGroups) = 2
  /\ Len(botChannels) = 2
  /\ Len(outbox) = 4

---------------------------------------------------------------------------
(* The messages the controller receives and their dispatch (SpecRouter).  *)

\* The messages the controller may receive.
Senders == {OtherUserId, "undefined"}
Messages == [type : MessageTypes, text : Texts, user : Senders, dispatched : {FALSE}]

\* The bot after its constructor and a first connection whose payload lists no
\* channel and no group (a state RtmStarted reaches), as a message comes in.
InitRouter ==
  /\ jokes \in JokeCollections
  /\ \E r \in 0..(RandomGrain - 1) : jokeOfTheDay = getRandomJoke(r)
  /\ jokeOfTheDayCronJob = CronJob
  /\ rtm = "open"
  /\ rtmPromise = "resolved"
  /\ botInstance = [api |-> "slack"]
  /\ botIdentity = [id |-> BotId]
  /\ botUser = Find(Users, BotId)
  /\ botGroups = <<>>
  /\ botChannels = <<>>
  /\ event \in Messages
  /\ pre = [channels |-> <<>>, groups |-> <<>>]
  /\ thrown = "none"
  /\ outbox = <<>>
  /\ fired = <<>>
  /\ listeners = setupEventListeners(createController)
  /\ giphy = 0

\* The controller dispatches the message that came in to the listeners of its
\* type; the callbacks that run send their replies.
Message(type) ==
  /\ rtm = "open"
  /\ event.type = type
  /\ ~event.dispatched
  /\ event' = [event EXCEPT !.dispatched = TRUE]
  /\ pre' = Snapshot
  /\ fired' = Trigger(listeners[type], event.text)
  /\ \E r \in 0..(RandomGrain - 1) : outbox' = AllReplies(fired', event.user, r)
  /\ thrown' = "none"
  /\ UNCHANGED <<giphy, listeners, jokes, jokeOfTheDay, jokeOfTheDayCronJob, rtm, rtmPromise,
                 botInstance, botIdentity, botUser, botGroups, botChannels>>

direct_message == Message("direct_message")
direct_mention == Message("direct_mention")
mention == Message("mention")
ambient == Message("ambient")

NextRouter ==
  \/ direct_message
  \/ direct_mention
  \/ mention
  \/ ambient

SpecRouter == InitRouter /\ [][NextRouter]_vars

---------------------------------------------------------------------------
(* Claims about the message router, checked under SpecRouter.              *)

\* The order the intents are claimed to be tried in.
IntentOrder == <<"salutation", "randomJoke", "jokeOfTheDay", "help", "gratitude">>

\* The pattern set of the intent matches the text and its scope set holds the type.
IntentMatches(cb, message) ==
  LET hears == CHOOSE h \in ToSet(Hears) : h.cb = cb
  IN  /\ \E e \in 1..Len(hears.events) : hears.events[e] = message.type
      /\ \E k \in 1..Len(hears.keywords) : Test(hears.keywords[k], message.text)

PatternMatches(keywords, text) == \E k \in 1..Len(keywords) : Test(keywords[k], text)

Dispatched == event.type \in MessageTypes /\ event.dispatched

\* C5: a message fires at most one intent: the first of salutation, joke
\* requests, help, gratitude whose patterns match the text and whose scopes hold
\* the message's type (an intent of another scope is passed over); a text that
\* matches a salutation and a gratitude pattern fires salutation alone.
C5_FirstMatchingIntentFires ==
  Dispatched =>
    LET matching == {k \in 1..Len(IntentOrder) : IntentMatches(IntentOrder[k], event)}
    IN  /\ Len(fired) <= 1
        /\ matching = {} => fired = <<>>
        /\ matching # {} =>
             fired = <<IntentOrder[CHOOSE k \in matching : \A l \in matching : k <= l]>>
        /\ (/\ PatternMatches(regexes.salutations, event.text)
            /\ PatternMatches(regexes.gratitude, event.text)
            /\ event.type # "ambient") => fired = <<"salutation">>

\* C5 witness: a mention whose text matches a salutation and a gratitude pattern
\* has fired salutation.
C5_Witness ==
  /\ Dispatched
  /\ event.type = "mention"
  /\ PatternMatches(regexes.salutations, event.text)
  /\ PatternMatches(regexes.gratitude, event.text)
  /\ fired = <<"salutation">>

HelpText == regexes.helpRequests[1].lit

\* C6 (as claimed): help fires only when the text is exactly "help"; on that
\* text, in a direct_message or direct_mention, it fires.
C6_HelpOnlyOnExactText ==
  Dispatched =>
    /\ (\E i \in 1..Len(fired) : fired[i] = "help") => event.text = HelpText
    /\ (event.text = HelpText /\ event.type \in {"direct_message", "direct_mention"})
         => fired = <<"help">>

\* C6 (amended): help fires exactly when the whole text is "help" up to letter
\* case and the message is a direct_message or direct_mention; a text that only
\* contains "help" does not fire it.
C6_HelpOnlyOnWholeTextAnyCase ==
  Dispatched =>
    ((\E i \in 1..Len(fired) : fired[i] = "help") <=>
       /\ Len(event.text) = Len(HelpText)
       /\ \A i \in 1..Len(HelpText) : LowerOf[event.text[i]] = HelpText[i]
       /\ event.type \in {"direct_message", "direct_mention"})

\* C6 witness: the text "hello help", which contains "help", in a direct
\* message: salutation fired, help did not.
C6_Witness ==
  /\ Dispatched
  /\ event.type = "direct_message"
  /\ Len(event.text) = 10
  /\ OccursAt(event.text, HelpText, 7)
  /\ fired = <<"salutation">>

\* The text of a random-joke request.
JokeRequestText == regexes.randomJokeRequests[1].lit

\* C11: a joke request ("tell me a joke") in a direct_message or direct_mention
\* fires the joke intent, which sends, when the message has a sender, two
\* messages in this order: an acknowledgment that mentions the sender, then a
\* line that quotes a joke of the collection; when the message has no sender,
\* the joke line alone.
C11_AcknowledgmentThenJoke ==
  Dispatched =>
    /\ (/\ event.text = JokeRequestText
        /\ event.type \in {"direct_message", "direct_mention"}) => fired = <<"randomJoke">>
    /\ fired = <<"randomJoke">> =>
         IF event.user # "undefined"
         THEN /\ Len(outbox) = 2
              /\ outbox[1] = <<"Sure thing <@", event.user, ">.">>
              /\ \E j \in 1..Len(jokes) : outbox[2] = <<">", jokes[j]>>
         ELSE /\ Len(outbox) = 1
              /\ \E j \in 1..Len(jokes) : outbox[1] = <<">", jokes[j]>>

\* C11 witness: a direct mention "tell me a joke" from a user has been answered
\* with two messages, the second one quoting the last joke of a collection of
\* more than one.
C11_Witness ==
  /\ Dispatched
  /\ event.type = "direct_mention"
  /\ event.text = JokeRequestText
  /\ event.user = OtherUserId
  /\ Len(jokes) > 1
  /\ Len(outbox) = 2
  /\ outbox[2] = <<">", jokes[Len(jokes)]>>

\* C19: the salutation and the gratitude reply hold the mention token, with the
\* sender's id, exactly when the message carries a sender; without a sender the
\* reply has no mention clause at all.
C19_MentionExactlyWithSender ==
  Dispatched =>
    /\ fired = <<"salutation">> =>
         outbox = IF event.user # "undefined"
                  THEN << <<"Howdy", " <@", event.user, ">", ".">> >>
                  ELSE << <<"Howdy", ".">> >>
    /\ fired = <<"gratitude">> =>
         outbox = IF event.user # "undefined"
                  THEN << <<"You're welcome", " <@", event.user, ">", ".">> >>
                  ELSE << <<"You're welcome", ".">> >>

\* C19 witness: a mention that thanked the bot and carries no sender was
\* answered without a mention clause.
C19_Witness ==
  /\ Dispatched
  /\ event.type = "mention"
  /\ event.user = "undefined"
  /\ fired = <<"gratitude">>
  /\ outbox = << <<"You're welcome", ".">> >>

---------------------------------------------------------------------------
(* The constructors of the three revisions (lines 15-51, 269-318, 589-636) *)
(* on the options they may be handed.                                      *)

Revisions == {"giphy", "membership", "broadcast"}

\* A token option: absent (typeof 'undefined'), the empty string that index.js
\* passes for an unset environment variable, or a token.
TokenOptions ==
  {[typeof |-> "undefined", length |-> 0],
   [typeof |-> "string", length |-> 0],
   [typeof |-> "string", length |-> 4]}

\* A jokes option: not an array, an empty array, or a collection of jokes.
JokesOptions ==
  {[isArray |-> FALSE, items |-> <<>>], [isArray |-> TRUE, items |-> <<>>]}
    \cup {[isArray |-> TRUE, items |-> c] : c \in JokeCollections}

\* The options object; the broadcasting revision reads its token from
\* options.token (slackToken here) and no giphyToken.
Options == [slackToken : TokenOptions, giphyToken : TokenOptions, jokes : JokesOptions]

\* typeof token !== 'string' || token.length <= 0
NotAToken(token) == token.typeof # "string" \/ token.length <= 0

\* !options.token
Falsy(token) == token.typeof = "undefined" \/ token.length = 0

\* Array.isArray(jokes) === false || jokes.length <= 0
NoJokes(option) == option.isArray = FALSE \/ Len(option.items) <= 0

\* The checks of the membership revision without the one of the Slack token.
ValidationErrorTokenUnchecked(revision, options) ==
  CASE revision = "giphy" ->
         IF NotAToken(options.giphyToken) THEN "NorrisBot: Missing Giphy token."
         ELSE IF NoJokes(options.jokes) THEN "NorrisBot: Missing jokes."
         ELSE "none"
    [] revision = "membership" ->
         IF NotAToken(options.giphyToken) THEN "NorrisBot: Missing Giphy token."
         ELSE IF NoJokes(options.jokes) THEN "NorrisBot: Missing jokes."
         ELSE "none"
    [] revision = "broadcast" ->
         IF Falsy(options.slackToken) THEN "NorrisBot: Missing token."
         ELSE IF NoJokes(options.jokes) THEN "NorrisBot: Missing jokes."
         ELSE "none"

\* The checks without the one of the Giphy token.
ValidationErrorGiphyUnchecked(revision, options) ==
  CASE revision = "giphy" ->
         IF NoJokes(options.jokes) THEN "NorrisBot: Missing jokes." ELSE "none"
    [] revision = "membership" ->
         IF NotAToken(options.slackToken) THEN "NorrisBot: Missing Slack token."
         ELSE IF NoJokes(options.jokes) THEN "NorrisBot: Missing jokes."
         ELSE "none"
    [] revision = "broadcast" ->
         IF Falsy(options.slackToken) THEN "NorrisBot: Missing token."
         ELSE IF NoJokes(options.jokes) THEN "NorrisBot: Missing jokes."
         ELSE "none"

\* The checks that open each constructor (lines 16-22, 270-280, 590-596): the
\* message of the Error thrown, or "none".
ValidationError(revision, options) ==
  CASE revision = "giphy" ->
         IF NotAToken(options.giphyToken) THEN "NorrisBot: Missing Giphy token."
         ELSE IF NoJokes(options.jokes) THEN "NorrisBot: Missing jokes."
         ELSE "none"
    [] revision = "membership" ->
         IF NotAToken(options.slackToken) THEN "NorrisBot: Missing Slack token."
         ELSE IF NotAToken(options.giphyToken) THEN "NorrisBot: Missing Giphy token."
         ELSE IF NoJokes(options.jokes) THEN "NorrisBot: Missing jokes."
         ELSE "none"
    [] revision = "broadcast" ->
         IF Falsy(options.slackToken) THEN "NorrisBot: Missing token."
         ELSE IF NoJokes(options.jokes) THEN "NorrisBot: Missing jokes."
         ELSE "none"

\* this.regexes.randomGifRequests (line 37): 'show me chuck'.
randomGifRequests ==
  <<[kind |-> "search",
     lit |-> <<"s", "h", "o", "w", " ", "m", "e", " ", "c", "h", "u", "c", "k">>]>>

\* The hears() calls of the Giphy revision (lines 80-184).
HearsGiphy ==
  <<[keywords |-> regexes.salutations, events |-> DirectAndMention, cb |-> "salutation"],
    [keywords |-> regexes.randomJokeRequests, events |-> DirectOnly, cb |-> "randomJoke"],
    [keywords |-> regexes.jokeOfTheDayRequests, events |-> DirectOnly, cb |-> "jokeOfTheDay"],
    [keywords |-> randomGifRequests, events |-> DirectOnly, cb |-> "randomGif"],
    [keywords |-> regexes.helpRequests, events |-> DirectOnly, cb |-> "help"],
    [keywords |-> regexes.gratitude, events |-> DirectAndMention, cb |-> "gratitude"]>>

RECURSIVE ListenersGiphy(_, _)
ListenersGiphy(h, type) ==
  IF h > Len(HearsGiphy) THEN <<>>
  ELSE ListenersOf(HearsGiphy[h], 1, type) \o ListenersGiphy(h + 1, type)

\* setupEventListeners of the Giphy revision (lines 66-185): two on() calls,
\* then the hears() calls.
setupEventListenersGiphy(events) ==
  LET bound == OnAll(events, SubSeq(OnEvents, 1, 2), 1)
  IN  [type \in EventTypes |-> bound[type] \o ListenersGiphy(1, type)]

\* `new NorrisBot(options)` is about to run: no field is set, there is no
\* controller, no cron job and no socket.
InitConstruct ==
  /\ jokes = <<>>
  /\ jokeOfTheDay = "undefined"
  /\ jokeOfTheDayCronJob = null
  /\ rtm = "none"
  /\ rtmPromise = "none"
  /\ botInstance = null
  /\ botIdentity = null
  /\ botUser = null
  /\ botGroups = nullList
  /\ botChannels = nullList
  /\ \E revision \in Revisions, options \in Options :
       event = [type |-> "new", revision |-> revision, options |-> options,
                done |-> FALSE]
  /\ pre = [channels |-> nullList, groups |-> nullList]
  /\ thrown = "none"
  /\ outbox = <<>>
  /\ fired = <<>>
  /\ listeners = createController
  /\ giphy = 0

\* The constructor: a failed check throws before anything is set up; otherwise
\* the fields are set, the joke of the day is picked and its cron job started
\* (lines 41-42, 302-303; not in the broadcasting revision), the listeners are
\* bound and the connection is started: startRTM with the token, or, in the
\* Giphy revision without a Slack token, BeepBoop.start (lines 46-50).
constructor ==
  /\ event.type = "new"
  /\ ~event.done
  /\ event' = [event EXCEPT !.done = TRUE]
  /\ thrown' = ValidationError(event.revision, event.options)
  /\ IF thrown' # "none"
     THEN UNCHANGED <<jokes, jokeOfTheDay, jokeOfTheDayCronJob, rtm, rtmPromise,
                      listeners>>
     ELSE /\ jokes' = event.options.jokes.items
          /\ IF event.revision = "broadcast"
             THEN UNCHANGED <<jokeOfTheDay, jokeOfTheDayCronJob>>
             ELSE /\ \E r \in 0..(RandomGrain - 1) :
                       jokeOfTheDay' = RandomJokeOf(jokes', r)
                  /\ jokeOfTheDayCronJob' = CronJob
          /\ listeners' =
               CASE event.revision = "giphy" -> setupEventListenersGiphy(createController)
                 [] event.revision = "membership" -> setupEventListeners(createController)
                 [] event.revision = "broadcast" ->
                      setupEventListenersBroadcast(createController)
          /\ IF event.revision = "giphy" /\ Falsy(event.options.slackToken)
             THEN rtm' = "beepboop" /\ rtmPromise' = "none"
             ELSE rtm' = "connecting" /\ rtmPromise' = "pending"
  /\ UNCHANGED <<giphy, botInstance, botIdentity, botUser, botGroups, botChannels,
                 pre, outbox, fired>>

NextConstruct == constructor

SpecConstruct == InitConstruct /\ [][NextConstruct]_vars

---------------------------------------------------------------------------
(* Claims about construction, checked under SpecConstruct.                 *)

Constructed == event.type = "new" /\ event.done

\* Nothing was set up: no connection attempt, no listener, no cron job.
NothingSetUp ==
  /\ rtm = "none"
  /\ rtmPromise = "none"
  /\ \A type \in EventTypes : listeners[type] = <<>>
  /\ jokeOfTheDayCronJob = null

\* C13 (as claimed): construction with a missing or empty access token, or
\* with jokes that are not a non-empty array, fails with an error before any
\* connection attempt, any listener registration and the arming of the timer.
C13_InvalidOptionsFail ==
  (/\ Constructed
   /\ \/ NotAToken(event.options.slackToken)
      \/ NoJokes(event.options.jokes)) => (thrown # "none" /\ NothingSetUp)

\* C13 (amended): construction with jokes that are not a non-empty array, in
\* every revision, or with a missing or empty access token, in the two
\* revisions that check it, fails with an error before any connection attempt,
\* any listener registration and the arming of the timer; the Giphy revision
\* given valid other options and no access token does not fail: it starts
\* through BeepBoop.
C13_InvalidOptionsFailWhereChecked ==
  Constructed =>
    /\ (\/ NoJokes(event.options.jokes)
        \/ NotAToken(event.options.slackToken) /\ event.revision # "giphy")
         => (thrown # "none" /\ NothingSetUp)
    /\ (/\ event.revision = "giphy"
        /\ NotAToken(event.options.slackToken)
        /\ ~NotAToken(event.options.giphyToken)
        /\ ~NoJokes(event.options.jokes)) => (thrown = "none" /\ rtm = "beepboop")

\* C13 witness: the membership revision handed an empty Slack token with a
\* Giphy token and jokes has thrown 'Missing Slack token'.
C13_Witness ==
  /\ Constructed
  /\ event.revision = "membership"
  /\ event.options.slackToken = [typeof |-> "string", length |-> 0]
  /\ ~NotAToken(event.options.giphyToken)
  /\ ~NoJokes(event.options.jokes)
  /\ thrown = "NorrisBot: Missing Slack token."
  /\ NothingSetUp

\* C17 (as claimed): a missing or empty Giphy credential does not make
\* construction fail: with valid other options the bot is constructed, and only
\* the image intent is unavailable.
C17_GiphyTokenOptional ==
  (/\ Constructed
   /\ NotAToken(event.options.giphyToken)
   /\ ~NotAToken(event.options.slackToken)
   /\ ~NoJokes(event.options.jokes)) =>
     /\ thrown = "none"
     /\ rtm = "connecting"
     /\ \A type \in MessageTypes : Registrations(type, "randomGif") = 0
     /\ Registrations("direct_message", "randomJoke") > 0

\* C17 (amended): a missing or empty Giphy credential makes construction fail,
\* before anything is set up, in the two revisions that take one (so no intent
\* at all is available); the broadcasting revision, which takes none and has no
\* image intent, is constructed whatever the Giphy credential.
C17_GiphyTokenRequired ==
  Constructed =>
    /\ (NotAToken(event.options.giphyToken) /\ event.revision # "broadcast")
         => (thrown # "none" /\ NothingSetUp)
    /\ (/\ event.revision = "broadcast"
        /\ ~Falsy(event.options.slackToken)
        /\ ~NoJokes(event.options.jokes)) =>
          /\ thrown = "none"
          /\ rtm = "connecting"
          /\ \A type \in MessageTypes : Registrations(type, "randomGif") = 0

\* C17 witness: the Giphy revision handed a Slack token, jokes and an empty
\* Giphy token has thrown 'Missing Giphy token'.
C17_Witness ==
  /\ Constructed
  /\ event.revision = "giphy"
  /\ event.options.giphyToken = [typeof |-> "string", length |-> 0]
  /\ ~NotAToken(event.options.slackToken)
  /\ ~NoJokes(event.options.jokes)
  /\ thrown = "NorrisBot: Missing Giphy token."
  /\ NothingSetUp

---------------------------------------------------------------------------
(* The Giphy revision (lines 6-253) once connected: the messages it hears   *)
(* and the lookups of its image intent.                                    *)

\* Most Giphy lookups in flight at once.
MaxLookups == 2

\* The texts of the messages: an image request, a joke request, a salutation.
GiphyTexts ==
  {randomGifRequests[1].lit, regexes.randomJokeRequests[1].lit, <<"h", "i">>}

\* The bot of the Giphy revision, constructed with a Slack token and connected.
InitGiphy ==
  /\ jokes \in JokeCollections
  /\ \E r \in 0..(RandomGrain - 1) : jokeOfTheDay = getRandomJoke(r)
  /\ jokeOfTheDayCronJob = CronJob
  /\ rtm = "open"
  /\ rtmPromise = "resolved"
  /\ botInstance = null
  /\ botIdentity = null
  /\ botUser = null
  /\ botGroups = nullList
  /\ botChannels = nullList
  /\ event = NoEvent
  /\ pre = [channels |-> nullList, groups |-> nullList]
  /\ thrown = "none"
  /\ outbox = <<>>
  /\ fired = <<>>
  /\ listeners = setupEventListenersGiphy(createController)
  /\ giphy = 0

\* What a callback of the Giphy revision says at once (lines 83-183): the
\* image intent acknowledges the sender and starts a lookup; the other intents
\* reply as in the later revisions.
RepliesGiphy(cbs, user, r) ==
  IF cbs = <<"randomGif">>
  THEN IF user # "undefined" THEN <<<<"Sure thing <@", user, ">.">>>> ELSE <<>>
  ELSE AllReplies(cbs, user, r)

\* The controller dispatches a message; the image intent (lines 126-151) calls
\* this.giphy.random, whose promise is then in flight.
MessageGiphy(type, text, user) ==
  /\ rtm = "open"
  /\ event' = [type |-> type, text |-> text, user |-> user, dispatched |-> TRUE]
  /\ fired' = Trigger(listeners[type], text)
  /\ fired' = <<"randomGif">> => giphy < MaxLookups
  /\ giphy' = IF fired' = <<"randomGif">> THEN giphy + 1 ELSE giphy
  /\ \E r \in 0..(RandomGrain - 1) : outbox' = RepliesGiphy(fired', user, r)
  /\ thrown' = "none"
  /\ UNCHANGED <<listeners, jokes, jokeOfTheDay, jokeOfTheDayCronJob, rtm, rtmPromise,
                 botInstance, botIdentity, botUser, botGroups, botChannels, pre>>

\* A lookup is answered (lines 138-144): the image url on status 200, an
\* apology on any other status.
GiphyResponded(status) ==
  /\ giphy > 0
  /\ giphy' = giphy - 1
  /\ event' = [type |-> "giphy_response", status |-> status]
  /\ outbox' = IF status = 200
               THEN <<<<"response.data.image_url">>>>
               ELSE <<<<"Uhoh... Something went wrong... Sorry!">>>>
  /\ thrown' = "none"
  /\ fired' = <<>>
  /\ UNCHANGED <<listeners, jokes, jokeOfTheDay, jokeOfTheDayCronJob, rtm, rtmPromise,
                 botInstance, botIdentity, botUser, botGroups, botChannels, pre>>

\* A lookup fails (lines 145-147): the rejection callback throws a new Error
\* inside the promise, which nothing catches; nothing is said and the lookup is
\* not started again.
GiphyFailed ==
  /\ giphy > 0
  /\ giphy' = giphy - 1
  /\ event' = [type |-> "giphy_error"]
  /\ outbox' = <<>>
  /\ thrown' = "Error"
  /\ fired' = <<>>
  /\ UNCHANGED <<listeners, jokes, jokeOfTheDay, jokeOfTheDayCronJob, rtm, rtmPromise,
                 botInstance, botIdentity, botUser, botGroups, botChannels, pre>>

NextGiphy ==
  \/ \E type \in MessageTypes, text \in GiphyTexts, user \in Senders :
       MessageGiphy(type, text, user)
  \/ \E status \in {200, 500} : GiphyResponded(status)
  \/ GiphyFailed

SpecGiphy == InitGiphy /\ [][NextGiphy]_vars

\* C16 (as claimed): a failed lookup is isolated: no error leaves the handler
\* that meets the failure.
C16_FailedLookupRaisesNothing ==
  event.type = "giphy_error" => thrown = "none"

---------------------------------------------------------------------------
(* The timer against the membership events: the broadcast of lines 744-756 *)
(* run on the lists that the listeners of lines 364-389 keep up to date.   *)
(* Node runs one callback at a time, to completion: a firing and a         *)
(* membership event are each one step, in either order.                    *)

\* The constructor of the broadcasting revision on a controller that also has
\* the membership listeners.
InitTimerAndEvents ==
  /\ jokes \in JokeCollections
  /\ jokeOfTheDay = "undefined"
  /\ jokeOfTheDayCronJob = null
  /\ rtm = "connecting"
  /\ rtmPromise = "pending"
  /\ botInstance = null
  /\ botIdentity = null
  /\ botUser = null
  /\ botGroups = nullList
  /\ botChannels = nullList
  /\ event = NoEvent
  /\ pre = [channels |-> nullList, groups |-> nullList]
  /\ thrown = "none"
  /\ outbox = <<>>
  /\ fired = <<>>
  /\ listeners = setupEventListeners(createController)
  /\ giphy = 0

NextTimerAndEvents ==
  \/ \E payload \in Payloads : RtmStartedBroadcast(payload)
  \/ \E channel \in JoinedChannels : channel_joined(channel)
  \/ \E channelID \in ChannelIds : channel_left(channelID)
  \/ \E group \in JoinedGroups : group_joined(group)
  \/ \E groupID \in GroupIds : group_left(groupID)
  \/ \E r \in 0..(RandomGrain - 1) : postJokeOfTheDay(r)

SpecTimerAndEvents == InitTimerAndEvents /\ [][NextTimerAndEvents]_vars

\* The ids of the elements of a list, in order.
IdsOf(list) == [i \in 1..Len(list) |-> list[i].id]

---------------------------------------------------------------------------
(* The joke of the day of the membership revision: the requests for it    *)
(* (lines 418-430) next to the ticks of its cron job (lines 461-475).      *)

\* The texts of the messages: a joke-of-the-day request, a joke request, a
\* salutation.
JokeOfTheDayTexts ==
  {regexes.jokeOfTheDayRequests[1].lit, regexes.randomJokeRequests[1].lit,
   <<"h", "i">>}

\* The controller dispatches a message to the listeners of its type; the
\* callback that runs sends its replies (lines 392-455).
Heard(type, text, user) ==
  /\ rtm = "open"
  /\ event' = [type |-> type, text |-> text, user |-> user, dispatched |-> TRUE]
  /\ pre' = Snapshot
  /\ fired' = Trigger(listeners[type], text)
  /\ \E r \in 0..(RandomGrain - 1) : outbox' = AllReplies(fired', user, r)
  /\ thrown' = "none"
  /\ UNCHANGED <<giphy, listeners, jokes, jokeOfTheDay, jokeOfTheDayCronJob, rtm,
                 rtmPromise, botInstance, botIdentity, botUser, botGroups, botChannels>>

NextJokeOfTheDay ==
  \/ \E payload \in Payloads : RtmStarted(payload)
  \/ \E type \in MessageTypes, text \in JokeOfTheDayTexts, user \in Senders :
       Heard(type, text, user)
  \/ \E r \in 0..(RandomGrain - 1) : setJokeOfTheDay(r)

SpecJokeOfTheDay == Init /\ [][NextJokeOfTheDay]_vars

\* The last message of the outbox.
LastSent(sent) == sent[Len(sent)]

\* C23: from construction on, hence whenever a joke-of-the-day request can be
\* handled, the stored joke of the day is set and an element of the collection;
\* a request is served the stored joke; the stored joke changes only at a tick
\* of the timer, so two requests with no tick between them are served the same
\* joke.
C23_JokeOfTheDayStableBetweenTicks ==
  /\ [](/\ jokeOfTheDay # "undefined"
        /\ \E j \in 1..Len(jokes) : jokeOfTheDay = jokes[j]
        /\ fired = <<"jokeOfTheDay">> => LastSent(outbox) = <<">", jokeOfTheDay>>)
  /\ [][/\ jokeOfTheDay' # jokeOfTheDay => event'.type = "tick"
        /\ (fired = <<"jokeOfTheDay">> /\ fired' = <<"jokeOfTheDay">>)
             => LastSent(outbox') = LastSent(outbox)]_vars

\* C23 witness: a joke-of-the-day request from a user is answered with the
\* stored joke, the last one of a collection of more than one.
C23_Witness ==
  /\ event.type = "direct_mention"
  /\ event.user = OtherUserId
  /\ fired = <<"jokeOfTheDay">>
  /\ Len(jokes) > 1
  /\ jokeOfTheDay = jokes[Len(jokes)]
  /\ outbox = << <<"Sure thing <@", OtherUserId, ">.">>, <<">", jokeOfTheDay>> >>
=============================================================================
